---- MODULE Spec2Model ----
(***************************************************************************)
(* OctoFit Tracker backend (octofit_tracker): the scoring rule of          *)
(* Activity.save, the derived User.total_points, team membership, and the  *)
(* leaderboard refresh of LeaderboardViewSet.update_rankings, together     *)
(* with the CRUD endpoints the router registers for these resources.       *)
(*                                                                         *)
(* The database is the state: one function per table, from primary key to  *)
(* row.  Primary keys are auto-increment counters (nextId) and are never   *)
(* reused.  NULL (0) is the absent foreign key.  Time is counted in days.  *)
(* Each action is one whole request, run alone; the steps of concurrent    *)
(* Activity.save calls are separate actions, with the calls in progress    *)
(* kept in saving; likewise the steps of concurrent refreshes, with the    *)
(* refreshes in progress kept in refreshing.                               *)
(***************************************************************************)
EXTENDS Integers, Sequences, FiniteSets

VARIABLES users, teams, activities, leaderboard, nextId, now, saving,
          refreshing

vars ==
    <<users, teams, activities, leaderboard, nextId, now, saving, refreshing>>

\* ------------------------------------------------------------------ bounds

\* Rows each table may ever receive (caps on the auto-increment counters).
MaxUsers == 2
MaxTeams == 2
MaxActivities == 2
MaxEntries == 4
\* The clock stops advancing at this day.
MaxNow == 2
\* Durations tried by the scoring specification: -MaxNegDuration..MaxDuration.
MaxDuration == 460
MaxNegDuration == 25
\* The number of refresh requests that run concurrently.
MaxRefreshes == 2

NULL == 0

\* ------------------------------------------------------------- model fields

ActivityTypes ==
    {"running", "cycling", "swimming", "weightlifting", "yoga", "walking", "other"}

Periods == {"daily", "weekly", "monthly", "all_time"}

FitnessLevels == {"beginner", "intermediate", "advanced"}

\* --------------------------------------------------------------- scoring

\* base_points = self.duration // 10 (floor division, also for negatives)
base_points(duration) == duration \div 10

\* A mutant of multiplier10: an activity type outside the table earns nothing.
multiplier10UnknownZero(activity_type) ==
    CASE activity_type = "running" -> 15
      [] activity_type = "cycling" -> 13
      [] activity_type = "swimming" -> 17
      [] activity_type = "weightlifting" -> 14
      [] activity_type = "yoga" -> 10
      [] activity_type = "walking" -> 8
      [] activity_type = "other" -> 10
      [] OTHER -> 0

\* The multiplier table, in tenths; .get(activity_type, 1.0) for any other type.
multiplier10(activity_type) ==
    CASE activity_type = "running" -> 15
      [] activity_type = "cycling" -> 13
      [] activity_type = "swimming" -> 17
      [] activity_type = "weightlifting" -> 14
      [] activity_type = "yoga" -> 10
      [] activity_type = "walking" -> 8
      [] activity_type = "other" -> 10
      [] OTHER -> 10

\* The multipliers are binary doubles.  1.5 and 1.0 are exact; the others are
\* the nearest double to the decimal, off by this many fifths of 2^-52:
\* 1.3 and 0.8 lie above the decimal, 1.7 and 1.4 below it.
multiplierError(activity_type) ==
    CASE activity_type = "cycling" -> 1
      [] activity_type = "walking" -> 1
      [] activity_type = "swimming" -> -1
      [] activity_type = "weightlifting" -> -2
      [] OTHER -> 0

\* The largest power of two strictly below n (n >= 2): the binade of the
\* doubles just below n.
RECURSIVE Pow2Below(_, _)
Pow2Below(n, p) == IF 2 * p < n THEN Pow2Below(n, 2 * p) ELSE p

\* int(base_points * multiplier): the double product, rounded to nearest
\* (ties to even), truncated toward zero.  The decimal product a*m10/10 and the
\* double product differ by a*|err|*0.2*2^-52; truncation sees the difference
\* only when the decimal product is an integer q and the double product rounds
\* to the double just below q, i.e. when the error exceeds half the spacing
\* 2^e * 2^-52 of the doubles below q: 2*a*|err| > 5 * 2^e.
IntOfProduct(base, activity_type) ==
    LET a == IF base >= 0 THEN base ELSE -base
        x == a * multiplier10(activity_type)
        q == x \div 10
        err == multiplierError(activity_type)
        below == /\ x % 10 = 0
                 /\ q >= 2
                 /\ err < 0
                 /\ 2 * a * (-err) > 5 * Pow2Below(q, 1)
        mag == IF below THEN q - 1 ELSE q
    IN  IF base >= 0 THEN mag ELSE -mag

\* The points Activity.save computes when points_earned is falsy.
points_for(duration, activity_type) ==
    IntOfProduct(base_points(duration), activity_type)

\* ------------------------------------------------------------ aggregates

RECURSIVE SumPoints(_, _)
SumPoints(acts, ids) ==
    IF ids = {} THEN 0
    ELSE LET i == CHOOSE x \in ids : TRUE
         IN  acts[i].points_earned + SumPoints(acts, ids \ {i})

\* Activity.objects.filter(user=user)
ActivitiesOf(acts, u) == {i \in DOMAIN acts : acts[i].user = u}

\* sum(Activity.objects.filter(user=user).values_list('points_earned', flat=True))
UserTotal(acts, u) == SumPoints(acts, ActivitiesOf(acts, u))

\* A mutant of ActivitySave: the total is recomputed before the row is stored.
ActivitySaveTotalFirst(acts, usrs, id, obj) ==
    LET pts == IF obj.points_earned = 0
               THEN points_for(obj.duration, obj.activity_type)
               ELSE obj.points_earned
        row == [obj EXCEPT !.points_earned = pts]
        stored == [i \in DOMAIN acts \cup {id} |-> IF i = id THEN row ELSE acts[i]]
    IN  [activities |-> stored,
         users |-> [usrs EXCEPT ![obj.user].total_points = UserTotal(acts, obj.user)]]

\* A mutant of ActivitySave: the points are computed whether or not the
\* caller supplied them.
ActivitySaveAlwaysComputes(acts, usrs, id, obj) ==
    LET row == [obj EXCEPT !.points_earned =
                   points_for(obj.duration, obj.activity_type)]
        stored == [i \in DOMAIN acts \cup {id} |-> IF i = id THEN row ELSE acts[i]]
    IN  [activities |-> stored,
         users |-> [usrs EXCEPT ![obj.user].total_points = UserTotal(stored, obj.user)]]

\* A mutant of ActivitySave: the totals of all users are recomputed.
ActivitySaveAllTotals(acts, usrs, id, obj) ==
    LET pts == IF obj.points_earned = 0
               THEN points_for(obj.duration, obj.activity_type)
               ELSE obj.points_earned
        row == [obj EXCEPT !.points_earned = pts]
        stored == [i \in DOMAIN acts \cup {id} |-> IF i = id THEN row ELSE acts[i]]
    IN  [activities |-> stored,
         users |-> [u \in DOMAIN usrs |->
                       [usrs[u] EXCEPT !.total_points = UserTotal(stored, u)]]]

\* Activity.save: compute points_earned when falsy, store the row, then
\* recompute and save the owner's total_points.
ActivitySave(acts, usrs, id, obj) ==
    LET pts == IF obj.points_earned = 0
               THEN points_for(obj.duration, obj.activity_type)
               ELSE obj.points_earned
        row == [obj EXCEPT !.points_earned = pts]
        stored == [i \in DOMAIN acts \cup {id} |-> IF i = id THEN row ELSE acts[i]]
    IN  [activities |-> stored,
         users |-> [usrs EXCEPT ![obj.user].total_points = UserTotal(stored, obj.user)]]

\* ------------------------------------------------------------------ state

Restrict(f, S) == [x \in S |-> f[x]]

Init ==
    /\ users = <<>>
    /\ teams = <<>>
    /\ activities = <<>>
    /\ leaderboard = <<>>
    /\ nextId = [user |-> 1, team |-> 1, activity |-> 1, leaderboard |-> 1]
    /\ now = 0
    /\ saving = <<>>
    /\ refreshing = <<>>

\* The clock moves forward between requests.
Tick ==
    /\ now < MaxNow
    /\ now' = now + 1
    /\ UNCHANGED <<users, teams, activities, leaderboard,
                   nextId, saving, refreshing>>

\* ------------------------------------------------------------ /api/users/

\* UserViewSet.create -> UserSerializer.create: total_points is read-only and
\* takes the model default 0.
UserCreate(level) ==
    /\ nextId.user <= MaxUsers
    /\ users' = [u \in DOMAIN users \cup {nextId.user} |->
                    IF u = nextId.user
                    THEN [total_points |-> 0, fitness_level |-> level]
                    ELSE users[u]]
    /\ nextId' = [nextId EXCEPT !.user = @ + 1]
    /\ UNCHANGED <<teams, activities, leaderboard, now, saving, refreshing>>

\* UserViewSet.update -> UserSerializer.update: the writable profile fields.
UserUpdate(u, level) ==
    /\ IF u \in DOMAIN users
       THEN /\ users' = [users EXCEPT ![u].fitness_level = level]
       ELSE /\ users' = users
    /\ UNCHANGED <<teams, activities, leaderboard, nextId,
                   now, saving, refreshing>>

\* The teams on_delete=CASCADE removes with user u (Team.created_by).
TeamsCreatedBy(u) == {t \in DOMAIN teams : teams[t].created_by = u}

\* UserViewSet.destroy: on_delete=CASCADE removes the user's activities, the
\* teams the user created, the leaderboard rows of the user and of those teams,
\* and the user's membership rows.
UserDestroy(u) ==
    /\ IF u \in DOMAIN users
       THEN LET gone == TeamsCreatedBy(u)
                kept == DOMAIN teams \ gone
            IN  /\ users' = Restrict(users, DOMAIN users \ {u})
                /\ activities' = Restrict(activities,
                       {i \in DOMAIN activities : activities[i].user # u})
                /\ teams' = [t \in kept |->
                       [teams[t] EXCEPT !.members = @ \ {u}]]
                /\ leaderboard' = Restrict(leaderboard,
                       {e \in DOMAIN leaderboard :
                           /\ leaderboard[e].user # u
                           /\ leaderboard[e].team \notin gone})
       ELSE /\ UNCHANGED <<users, activities, teams, leaderboard>>
    /\ UNCHANGED <<nextId, now, saving, refreshing>>

\* ------------------------------------------------------------ /api/teams/

\* TeamViewSet.create -> TeamSerializer.create: total_points is read-only
\* (default 0); members are the existing users among member_ids.  created_by
\* is a required foreign key: the insert fails without an existing user.
TeamCreate(created_by_id, member_ids) ==
    /\ nextId.team <= MaxTeams
    /\ IF created_by_id \in DOMAIN users
       THEN /\ teams' = [t \in DOMAIN teams \cup {nextId.team} |->
                   IF t = nextId.team
                   THEN [created_by |-> created_by_id,
                         members |-> member_ids \cap DOMAIN users,
                         total_points |-> 0]
                   ELSE teams[t]]
            /\ nextId' = [nextId EXCEPT !.team = @ + 1]
       ELSE /\ UNCHANGED <<teams, nextId>>
    /\ UNCHANGED <<users, activities, leaderboard, now, saving, refreshing>>

\* TeamViewSet.update -> TeamSerializer.update with member_ids given.
TeamUpdate(t, member_ids) ==
    /\ IF t \in DOMAIN teams
       THEN /\ teams' = [teams EXCEPT ![t].members = member_ids \cap DOMAIN users]
       ELSE /\ teams' = teams
    /\ UNCHANGED <<users, activities, leaderboard, nextId,
                   now, saving, refreshing>>

\* TeamViewSet.destroy: on_delete=CASCADE removes the team's leaderboard rows.
TeamDestroy(t) ==
    /\ IF t \in DOMAIN teams
       THEN /\ teams' = Restrict(teams, DOMAIN teams \ {t})
            /\ leaderboard' = Restrict(leaderboard,
                   {e \in DOMAIN leaderboard : leaderboard[e].team # t})
       ELSE /\ UNCHANGED <<teams, leaderboard>>
    /\ UNCHANGED <<users, activities, nextId, now, saving, refreshing>>

\* Response status codes: Response(...) without a status, and
\* status.HTTP_404_NOT_FOUND (also what get_object's Http404 produces).
HTTP_200_OK == 200
HTTP_404_NOT_FOUND == 404

\* The status add_member and remove_member answer with: get_object raises
\* Http404 for a missing team, User.DoesNotExist is answered with 404.
member_status(t, user_id) ==
    IF t \notin DOMAIN teams THEN HTTP_404_NOT_FOUND
    ELSE IF user_id \notin DOMAIN users THEN HTTP_404_NOT_FOUND
    ELSE HTTP_200_OK

\* A mutant of add_member: the id is added without looking the user up.
add_member_unchecked(t, user_id) ==
    /\ IF t \in DOMAIN teams
       THEN /\ teams' = [teams EXCEPT ![t].members = @ \cup {user_id}]
       ELSE /\ teams' = teams
    /\ UNCHANGED <<users, activities, leaderboard, nextId,
                   now, saving, refreshing>>

\* TeamViewSet.add_member: get_object (404), User.objects.get (404), members.add.
add_member(t, user_id) ==
    /\ IF t \in DOMAIN teams /\ user_id \in DOMAIN users
       THEN /\ teams' = [teams EXCEPT ![t].members = @ \cup {user_id}]
       ELSE /\ teams' = teams
    /\ UNCHANGED <<users, activities, leaderboard, nextId,
                   now, saving, refreshing>>

\* TeamViewSet.remove_member: get_object (404), User.objects.get (404),
\* members.remove.
remove_member(t, user_id) ==
    /\ IF t \in DOMAIN teams /\ user_id \in DOMAIN users
       THEN /\ teams' = [teams EXCEPT ![t].members = @ \ {user_id}]
       ELSE /\ teams' = teams
    /\ UNCHANGED <<users, activities, leaderboard, nextId,
                   now, saving, refreshing>>

\* ------------------------------------------------------- /api/activities/

\* Activity.objects.create(...) -> Activity.save.  Through the REST endpoint
\* points_earned is read-only, so it arrives as the default 0; a caller of the
\* model may supply it.  The user foreign key must name an existing user.
ActivityCreate(user_id, activity_type, duration, date, points_earned) ==
    /\ nextId.activity <= MaxActivities
    /\ IF user_id \in DOMAIN users
       THEN LET saved == ActivitySave(activities, users, nextId.activity,
                            [user |-> user_id, activity_type |-> activity_type,
                             duration |-> duration, date |-> date,
                             points_earned |-> points_earned])
            IN  /\ activities' = saved.activities
                /\ users' = saved.users
                /\ nextId' = [nextId EXCEPT !.activity = @ + 1]
       ELSE /\ UNCHANGED <<activities, users, nextId>>
    /\ UNCHANGED <<teams, leaderboard, now, saving, refreshing>>

\* ActivityViewSet.update -> ModelSerializer.update: the writable fields are
\* set on the stored instance, which keeps its points_earned (read-only),
\* then Activity.save.  clear: the caller of the model reset points_earned
\* to 0 before saving.
ActivityUpdate(id, user_id, activity_type, duration, date, clear) ==
    /\ IF id \in DOMAIN activities /\ user_id \in DOMAIN users
       THEN LET saved == ActivitySave(activities, users, id,
                            [user |-> user_id, activity_type |-> activity_type,
                             duration |-> duration, date |-> date,
                             points_earned |->
                                 IF clear THEN 0 ELSE activities[id].points_earned])
            IN  /\ activities' = saved.activities
                /\ users' = saved.users
       ELSE /\ UNCHANGED <<activities, users>>
    /\ UNCHANGED <<teams, leaderboard, nextId, now, saving, refreshing>>

\* ActivityViewSet.destroy: instance.delete(); Activity.save is not involved.
ActivityDestroy(id) ==
    /\ IF id \in DOMAIN activities
       THEN /\ activities' = Restrict(activities, DOMAIN activities \ {id})
       ELSE /\ activities' = activities
    /\ UNCHANGED <<users, teams, leaderboard, nextId, now, saving, refreshing>>

\* --------------------------------------------- concurrent Activity.save

\* Activity.save of a new activity, run by concurrent requests, takes three
\* steps against the database: the INSERT of super().save(), the SELECT of
\* the sum, and the UPDATE of user.save().  saving maps the activity being
\* saved to the call's local state: its position pc, the user instance it
\* holds (self.user), and the sum it has read.

\* Lines 97-110: compute points_earned when falsy, then super().save().
SaveStore(user_id, activity_type, duration, date, points_earned) ==
    /\ nextId.activity <= MaxActivities
    /\ user_id \in DOMAIN users
    /\ LET id == nextId.activity
           pts == IF points_earned = 0
                  THEN points_for(duration, activity_type)
                  ELSE points_earned
           row == [user |-> user_id, activity_type |-> activity_type,
                   duration |-> duration, date |-> date, points_earned |-> pts]
       IN  /\ activities' = [i \in DOMAIN activities \cup {id} |->
                                IF i = id THEN row ELSE activities[i]]
           /\ saving' = [i \in DOMAIN saving \cup {id} |->
                            IF i = id
                            THEN [pc |-> "sum", user |-> users[user_id], total |-> 0]
                            ELSE saving[i]]
    /\ nextId' = [nextId EXCEPT !.activity = @ + 1]
    /\ UNCHANGED <<users, teams, leaderboard, now, refreshing>>

\* Line 114: user.total_points = sum(Activity.objects.filter(user=user)...),
\* set on the instance the call holds.
SaveReadSum(id) ==
    /\ id \in DOMAIN saving
    /\ saving[id].pc = "sum"
    /\ saving' = [saving EXCEPT ![id].pc = "save",
                     ![id].total = UserTotal(activities, activities[id].user)]
    /\ UNCHANGED <<users, teams, activities, leaderboard,
                   nextId, now, refreshing>>

\* A mutant of SaveWriteTotal: the instance is written as the call first held
\* it, without the sum.
SaveWriteHeldUser(id) ==
    /\ id \in DOMAIN saving
    /\ saving[id].pc = "save"
    /\ users' = [users EXCEPT ![activities[id].user] = saving[id].user]
    /\ saving' = [saving EXCEPT ![id].pc = "done"]
    /\ UNCHANGED <<teams, activities, leaderboard, nextId, now, refreshing>>

\* Line 115: user.save() writes the instance, with the sum the call read.
SaveWriteTotal(id) ==
    /\ id \in DOMAIN saving
    /\ saving[id].pc = "save"
    /\ users' = [users EXCEPT ![activities[id].user] =
                    [saving[id].user EXCEPT !.total_points = saving[id].total]]
    /\ saving' = [saving EXCEPT ![id].pc = "done"]
    /\ UNCHANGED <<teams, activities, leaderboard, nextId, now, refreshing>>

\* ------------------------------------------------------ /api/leaderboard/

\* timedelta(days=1), timedelta(weeks=1), timedelta(days=30), in days.
DailyDays == 1
WeeklyDays == 7
MonthlyDays == 30

\* Whether the refresh filters by date at all: start_date is None for
\* all_time and for every period value that is not daily, weekly or monthly.
HasStart(period) == period \in {"daily", "weekly", "monthly"}

\* A mutant of start_date: the weekly and the monthly window are swapped.
start_dateSwapped(period, end_date) ==
    CASE period = "daily" -> end_date - DailyDays
      [] period = "weekly" -> end_date - MonthlyDays
      [] period = "monthly" -> end_date - WeeklyDays
      [] OTHER -> end_date

\* start_date = end_date - timedelta(...), with end_date = timezone.now().
start_date(period, end_date) ==
    CASE period = "daily" -> end_date - DailyDays
      [] period = "weekly" -> end_date - WeeklyDays
      [] period = "monthly" -> end_date - MonthlyDays
      [] OTHER -> end_date

\* if start_date: activities = activities.filter(date__gte=start_date).
\* end_date is not part of the filter.
InWindow(period, end_date, date) ==
    HasStart(period) => date >= start_date(period, end_date)

\* activities.aggregate(Sum('points_earned'))['points_earned__sum'] or 0 over
\* Activity.objects.filter(user=user), filtered by the window.
UserWindowPoints(acts, u, period, end_date) ==
    SumPoints(acts, {i \in DOMAIN acts :
        acts[i].user = u /\ InWindow(period, end_date, acts[i].date)})

\* A mutant of TeamWindowPoints: the creator's activities count as well.
TeamWindowPointsWithCreator(acts, tms, t, period, end_date) ==
    SumPoints(acts, {i \in DOMAIN acts :
        /\ acts[i].user \in tms[t].members \cup {tms[t].created_by}
        /\ InWindow(period, end_date, acts[i].date)})

\* The same over Activity.objects.filter(user__in=team.members.all()).
TeamWindowPoints(acts, tms, t, period, end_date) ==
    SumPoints(acts, {i \in DOMAIN acts :
        /\ acts[i].user \in tms[t].members
        /\ InWindow(period, end_date, acts[i].date)})

\* The order in which Model.objects.all() yields the rows of a table with no
\* Meta.ordering: by primary key, which is the order of insertion.
RECURSIVE Enumerate(_)
Enumerate(S) ==
    IF S = {} THEN <<>>
    ELSE LET m == CHOOSE x \in S : \A y \in S : x <= y
         IN  <<m>> \o Enumerate(S \ {m})

\* A mutant of InsertDesc: item goes before the elements with equal points
\* (an unstable sort that reverses ties).
RECURSIVE InsertDescBeforeTies(_, _)
InsertDescBeforeTies(s, item) ==
    IF s = <<>> THEN <<item>>
    ELSE IF Head(s).points > item.points
         THEN <<Head(s)>> \o InsertDescBeforeTies(Tail(s), item)
         ELSE <<item>> \o s

\* One step of the stable descending sort: item goes behind every element
\* whose points are greater or equal.
RECURSIVE InsertDesc(_, _)
InsertDesc(s, item) ==
    IF s = <<>> THEN <<item>>
    ELSE IF Head(s).points >= item.points
         THEN <<Head(s)>> \o InsertDesc(Tail(s), item)
         ELSE <<item>> \o s

\* A mutant of SortDesc: the list is left in enumeration order.
SortDescNot(s) == s

\* list.sort(key=lambda x: x[1], reverse=True): stable, descending by points.
RECURSIVE SortDesc(_)
SortDesc(s) ==
    IF s = <<>> THEN <<>>
    ELSE InsertDesc(SortDesc(SubSeq(s, 1, Len(s) - 1)), s[Len(s)])

\* A mutant of Matching: the lookup ignores the period.
MatchingAnyPeriod(lb, kind, ent, period) ==
    {e \in DOMAIN lb : lb[e][kind] = ent}

\* The rows update_or_create(user=..., period=...) or (team=..., period=...)
\* looks up.  kind is the name of the foreign key, "user" or "team".
Matching(lb, kind, ent, period) ==
    {e \in DOMAIN lb : lb[e][kind] = ent /\ lb[e].period = period}

NewEntry(kind, ent, period, rank, points) ==
    [user |-> IF kind = "user" THEN ent ELSE NULL,
     team |-> IF kind = "team" THEN ent ELSE NULL,
     period |-> period, rank |-> rank, points |-> points]

\* A mutant of UpdateOrCreate: objects.create, whether or not a row exists.
AlwaysCreate(db, kind, ent, period, rank, points) ==
    [lb |-> [e \in DOMAIN db.lb \cup {db.next} |->
                IF e = db.next THEN NewEntry(kind, ent, period, rank, points)
                ELSE db.lb[e]],
     next |-> db.next + 1]

\* A mutant of UpdateOrCreate: an existing row is found and left as it is
\* (get_or_create).
GetOrCreate(db, kind, ent, period, rank, points) ==
    IF Matching(db.lb, kind, ent, period) = {}
    THEN AlwaysCreate(db, kind, ent, period, rank, points)
    ELSE db

\* A mutant of UpdateOrCreate: an existing row's points are incremented by
\* the new sum instead of being overwritten.
UpdateOrCreateAdding(db, kind, ent, period, rank, points) ==
    LET found == Matching(db.lb, kind, ent, period)
    IN  IF found = {}
        THEN AlwaysCreate(db, kind, ent, period, rank, points)
        ELSE LET e == CHOOSE x \in found : TRUE
             IN  [db EXCEPT !.lb[e].rank = rank, !.lb[e].points = @ + points]

\* Leaderboard.objects.update_or_create(<kind>=ent, period=period,
\* defaults={'rank': rank, 'points': points}) on db = [lb, next]: the matching
\* row gets the defaults, or a row is created from the lookup and the defaults.
UpdateOrCreate(db, kind, ent, period, rank, points) ==
    LET found == Matching(db.lb, kind, ent, period)
    IN  IF found = {}
        THEN [lb |-> [e \in DOMAIN db.lb \cup {db.next} |->
                         IF e = db.next
                         THEN NewEntry(kind, ent, period, rank, points)
                         ELSE db.lb[e]],
              next |-> db.next + 1]
        ELSE LET e == CHOOSE x \in found : TRUE
             IN  [db EXCEPT !.lb[e].rank = rank, !.lb[e].points = points]

\* A mutant of Upserts: entities with equal points share a rank (the rank is
\* one more than the number of entities with more points).
RECURSIVE UpsertsSharedRank(_, _, _, _, _)
UpsertsSharedRank(db, kind, sorted, period, rank) ==
    IF rank > Len(sorted) THEN db
    ELSE UpsertsSharedRank(
             UpdateOrCreate(db, kind, sorted[rank].ent, period,
                 1 + Cardinality({k \in 1..Len(sorted) :
                                     sorted[k].points > sorted[rank].points}),
                 sorted[rank].points),
             kind, sorted, period, rank + 1)

\* for rank, (entity, points) in enumerate(sorted, start=1): update_or_create
RECURSIVE Upserts(_, _, _, _, _)
Upserts(db, kind, sorted, period, rank) ==
    IF rank > Len(sorted) THEN db
    ELSE Upserts(UpdateOrCreate(db, kind, sorted[rank].ent, period, rank,
                                sorted[rank].points),
                 kind, sorted, period, rank + 1)

\* A mutant of UpsertsInOrder: the rank written is the position at which the
\* upsert is executed (a counter shared by the upserts) instead of the
\* entity's position in the sorted list.
RECURSIVE UpsertsCountingRank(_, _, _, _, _, _)
UpsertsCountingRank(db, kind, sorted, period, order, i) ==
    IF i > Len(order) THEN db
    ELSE UpsertsCountingRank(
             UpdateOrCreate(db, kind, sorted[order[i]].ent, period, i,
                            sorted[order[i]].points),
             kind, sorted, period, order, i + 1)

\* The upserts of the loop, each with the rank and points the loop gives it,
\* executed in the order of the positions listed in order instead of rank
\* order (order = <<1, ..., n>> is the loop itself).
RECURSIVE UpsertsInOrder(_, _, _, _, _, _)
UpsertsInOrder(db, kind, sorted, period, order, i) ==
    IF i > Len(order) THEN db
    ELSE UpsertsInOrder(
             UpdateOrCreate(db, kind, sorted[order[i]].ent, period, order[i],
                            sorted[order[i]].points),
             kind, sorted, period, order, i + 1)

\* user_points, as appended in the loop over User.objects.all()
user_points(acts, usrs, period, end_date) ==
    LET order == Enumerate(DOMAIN usrs)
    IN  [k \in 1..Len(order) |->
            [ent |-> order[k],
             points |-> UserWindowPoints(acts, order[k], period, end_date)]]

\* team_points, as appended in the loop over Team.objects.all()
team_points(acts, tms, period, end_date) ==
    LET order == Enumerate(DOMAIN tms)
    IN  [k \in 1..Len(order) |->
            [ent |-> order[k],
             points |-> TeamWindowPoints(acts, tms, order[k], period, end_date)]]

\* LeaderboardViewSet._update_user_rankings on db = [lb, next]
update_user_rankings(db, period) ==
    Upserts(db, "user", SortDesc(user_points(activities, users, period, now)),
            period, 1)

\* LeaderboardViewSet._update_team_rankings on db = [lb, next]
update_team_rankings(db, period) ==
    Upserts(db, "team", SortDesc(team_points(activities, teams, period, now)),
            period, 1)

\* The rows a refresh of period has to create.
MissingEntries(period) ==
    Cardinality({u \in DOMAIN users : Matching(leaderboard, "user", u, period) = {}})
    + Cardinality({t \in DOMAIN teams : Matching(leaderboard, "team", t, period) = {}})

\* LeaderboardViewSet.update_rankings with request.data = {'period': period}:
\* the user pass, then the team pass.
update_rankings(period) ==
    /\ UNCHANGED <<users, teams, activities, now, saving, refreshing>>
    /\ nextId.leaderboard + MissingEntries(period) <= MaxEntries + 1
    /\ LET db0 == [lb |-> leaderboard, next |-> nextId.leaderboard]
           db1 == update_user_rankings(db0, period)
           db2 == update_team_rankings(db1, period)
       IN  /\ leaderboard' = db2.lb
           /\ nextId' = [nextId EXCEPT !.leaderboard = db2.next]

\* ----------------------------------------------- concurrent update_rankings

\* update_rankings run by concurrent requests.  refreshing maps a request to
\* its local state: the period, its position pc ("users": in the loop of
\* _update_user_rankings, "teams": in the loop of _update_team_rankings,
\* "done"), the sorted list of the pass and the rank the loop has reached.
\* Computing the list of a pass is one step and each update_or_create is one
\* step (it runs in a transaction, and unique_together turns a concurrent
\* create into an update of the row found).

\* Lines 186 and 197-220: the request starts, computes user_points and sorts.
RefreshStart(period) ==
    /\ Cardinality(DOMAIN refreshing) < MaxRefreshes
    /\ LET r == Cardinality(DOMAIN refreshing) + 1
           req == [period |-> period, pc |-> "users", rank |-> 1,
                   user_points |->
                       SortDesc(user_points(activities, users, period, now)),
                   team_points |-> <<>>]
       IN  refreshing' = [x \in DOMAIN refreshing \cup {r} |->
                             IF x = r THEN req ELSE refreshing[x]]
    /\ UNCHANGED <<users, teams, activities, leaderboard, nextId, now, saving>>

\* Lines 223-228: one iteration of the loop over user_points.
RefreshUpsertUser(r) ==
    /\ r \in DOMAIN refreshing
    /\ refreshing[r].pc = "users"
    /\ refreshing[r].rank <= Len(refreshing[r].user_points)
    /\ LET item == refreshing[r].user_points[refreshing[r].rank]
           db == UpdateOrCreate(
                     [lb |-> leaderboard, next |-> nextId.leaderboard],
                     "user", item.ent, refreshing[r].period,
                     refreshing[r].rank, item.points)
       IN  /\ leaderboard' = db.lb
           /\ nextId' = [nextId EXCEPT !.leaderboard = db.next]
    /\ refreshing' = [refreshing EXCEPT ![r].rank = @ + 1]
    /\ UNCHANGED <<users, teams, activities, now, saving>>

\* Lines 189 and 232-255: the user loop has ended; the request computes
\* team_points and sorts.
RefreshTeamPass(r) ==
    /\ r \in DOMAIN refreshing
    /\ refreshing[r].pc = "users"
    /\ refreshing[r].rank > Len(refreshing[r].user_points)
    /\ refreshing' = [refreshing EXCEPT ![r].pc = "teams", ![r].rank = 1,
           ![r].team_points =
               SortDesc(team_points(activities, teams, refreshing[r].period, now))]
    /\ UNCHANGED <<users, teams, activities, leaderboard, nextId, now, saving>>

\* Lines 258-263: one iteration of the loop over team_points.
RefreshUpsertTeam(r) ==
    /\ r \in DOMAIN refreshing
    /\ refreshing[r].pc = "teams"
    /\ refreshing[r].rank <= Len(refreshing[r].team_points)
    /\ LET item == refreshing[r].team_points[refreshing[r].rank]
           db == UpdateOrCreate(
                     [lb |-> leaderboard, next |-> nextId.leaderboard],
                     "team", item.ent, refreshing[r].period,
                     refreshing[r].rank, item.points)
       IN  /\ leaderboard' = db.lb
           /\ nextId' = [nextId EXCEPT !.leaderboard = db.next]
    /\ refreshing' = [refreshing EXCEPT ![r].rank = @ + 1]
    /\ UNCHANGED <<users, teams, activities, now, saving>>

\* Line 193: the team loop has ended; the request returns its response.
RefreshFinish(r) ==
    /\ r \in DOMAIN refreshing
    /\ refreshing[r].pc = "teams"
    /\ refreshing[r].rank > Len(refreshing[r].team_points)
    /\ refreshing' = [refreshing EXCEPT ![r].pc = "done"]
    /\ UNCHANGED <<users, teams, activities, leaderboard, nextId, now, saving>>

\* -------------------------------- POST /api/leaderboard/update_rankings/

\* A mutant of request_period: a request without a period is a daily one.
request_periodDefaultDaily(data) ==
    IF \E kv \in data : kv[1] = "period"
    THEN (CHOOSE kv \in data : kv[1] = "period")[2]
    ELSE "daily"

\* period = request.data.get('period', 'all_time'), with the request body
\* data a set of <<key, value>> pairs.  No validation follows.
request_period(data) ==
    IF \E kv \in data : kv[1] = "period"
    THEN (CHOOSE kv \in data : kv[1] = "period")[2]
    ELSE "all_time"

\* LeaderboardViewSet.update_rankings on the request body data.
post_update_rankings(data) == update_rankings(request_period(data))

\* LeaderboardViewSet.create: user and team are read-only in
\* LeaderboardSerializer, so the stored row has neither.
LeaderboardCreate(period, rank, points) ==
    /\ nextId.leaderboard <= MaxEntries
    /\ leaderboard' = [e \in DOMAIN leaderboard \cup {nextId.leaderboard} |->
           IF e = nextId.leaderboard
           THEN NewEntry("none", NULL, period, rank, points)
           ELSE leaderboard[e]]
    /\ nextId' = [nextId EXCEPT !.leaderboard = @ + 1]
    /\ UNCHANGED <<users, teams, activities, now, saving, refreshing>>

\* get_object over get_queryset: the row must have the period of the query
\* parameter (default 'all_time').
Found(id, query_period) ==
    id \in DOMAIN leaderboard /\ leaderboard[id].period = query_period

\* unique_together = [['user', 'period'], ['team', 'period']]: whether row id
\* may take this period (rows with a NULL key never collide).
UniqueTogether(id, period) ==
    \A e \in DOMAIN leaderboard \ {id} :
        leaderboard[e].period = period =>
            /\ leaderboard[id].user = NULL \/ leaderboard[e].user # leaderboard[id].user
            /\ leaderboard[id].team = NULL \/ leaderboard[e].team # leaderboard[id].team

\* LeaderboardViewSet.update: period, rank and points are writable.
LeaderboardUpdate(id, query_period, period, rank, points) ==
    /\ IF Found(id, query_period)
       THEN IF UniqueTogether(id, period)
            THEN /\ leaderboard' = [leaderboard EXCEPT ![id].period = period,
                                       ![id].rank = rank, ![id].points = points]
            ELSE /\ leaderboard' = leaderboard
       ELSE /\ leaderboard' = leaderboard
    /\ UNCHANGED <<users, teams, activities, nextId, now, saving, refreshing>>

\* LeaderboardViewSet.destroy
LeaderboardDestroy(id, query_period) ==
    /\ IF Found(id, query_period)
       THEN /\ leaderboard' = Restrict(leaderboard, DOMAIN leaderboard \ {id})
       ELSE /\ leaderboard' = leaderboard
    /\ UNCHANGED <<users, teams, activities, nextId, now, saving, refreshing>>

\* --------------------------------------------------------- specifications

UserIds == 1..MaxUsers
TeamIds == 1..MaxTeams
ActivityIds == 1..MaxActivities

\* Scoring alone: one user, one activity of any duration and type, including
\* a type outside the choices ("boxing", as the seeding script uses).
ScoreDurations == (0 - MaxNegDuration)..MaxDuration
ScoreTypes == ActivityTypes \cup {"boxing"}

NextScore ==
    \/ /\ nextId.user <= 1
       /\ UserCreate("beginner")
    \/ /\ nextId.activity <= 1
       /\ \E t \in ScoreTypes, d \in ScoreDurations : ActivityCreate(1, t, d, 0, 0)

SpecScore == Init /\ [][NextScore]_vars

\* Activities and totals: creations, edits and deletions of activities of two
\* users.
TotalsTypes == {"running", "walking"}
TotalsDurations == {5, 30, 45}

NextTotals ==
    \/ UserCreate("beginner")
    \/ \E u \in UserIds, t \in TotalsTypes, d \in TotalsDurations, p \in {0, 7} :
           ActivityCreate(u, t, d, 0, p)
    \/ \E id \in ActivityIds, u \in UserIds, t \in TotalsTypes,
          d \in TotalsDurations, c \in BOOLEAN :
           ActivityUpdate(id, u, t, d, 0, c)
    \/ \E id \in ActivityIds : ActivityDestroy(id)

SpecTotals == Init /\ [][NextTotals]_vars

\* Moves: activities of two users are created, edited (the owner included)
\* and deleted.
MoveDurations == {30, 45}

NextMove ==
    \/ UserCreate("beginner")
    \/ \E u \in UserIds, d \in MoveDurations :
           ActivityCreate(u, "running", d, 0, 0)
    \/ \E id \in ActivityIds, u \in UserIds, d \in MoveDurations :
           ActivityUpdate(id, u, "running", d, 0, FALSE)
    \/ \E id \in ActivityIds : ActivityDestroy(id)

SpecMove == Init /\ [][NextMove]_vars

\* Creations only: activities are created one after another, points unset.
NextCreate ==
    \/ UserCreate("beginner")
    \/ \E u \in UserIds, t \in TotalsTypes, d \in TotalsDurations :
           ActivityCreate(u, t, d, 0, 0)

SpecCreate == Init /\ [][NextCreate]_vars

\* Ranking: users, teams (created by user 1), memberships and activities
\* change, and the leaderboard is refreshed.  The client picks the activity's date: today,
\* the first day of today's daily window, or the day before that.
RankingPeriods == {"daily"}
RankingDates == {0 - 2, 0 - 1}

NextRanking ==
    \/ UserCreate("beginner")
    \/ \E u \in UserIds : UserDestroy(u)
    \/ TeamCreate(1, {})
    \/ \E t \in TeamIds : TeamDestroy(t)
    \/ \E t \in TeamIds, u \in UserIds : add_member(t, u)
    \/ \E t \in TeamIds, u \in UserIds : remove_member(t, u)
    \/ \E u \in UserIds, dt \in RankingDates : ActivityCreate(u, "running", 30, dt, 0)
    \/ \E id \in ActivityIds : ActivityDestroy(id)
    \/ \E p \in RankingPeriods : update_rankings(p)

SpecRanking == Init /\ [][NextRanking]_vars

\* Windows: one user, activities dated at and just before the start of each
\* window of day 0 and one dated after the clock's last day, a moving clock,
\* and refreshes of every period.
WindowDates ==
    {0 - (MonthlyDays + 1), 0 - MonthlyDays, 0 - (WeeklyDays + 1), 0 - WeeklyDays,
     0 - (DailyDays + 1), 0 - DailyDays, MaxNow + 1}

NextWindow ==
    \/ Tick
    \/ /\ nextId.user <= 1
       /\ UserCreate("beginner")
    \/ \E dt \in WindowDates : ActivityCreate(1, "running", 30, dt, 0)
    \/ \E p \in Periods : update_rankings(p)

SpecWindow == Init /\ [][NextWindow]_vars

\* Concurrent creations: one user, and activities whose saves interleave
\* step by step.
NextRace ==
    \/ /\ nextId.user <= 1
       /\ UserCreate("beginner")
    \/ \E t \in TotalsTypes, d \in TotalsDurations : SaveStore(1, t, d, 0, 0)
    \/ \E id \in ActivityIds : SaveReadSum(id)
    \/ \E id \in ActivityIds : SaveWriteTotal(id)

SpecRace == Init /\ [][NextRace]_vars

\* Concurrent refreshes: two users, a team, activities inside the daily
\* window, and refreshes of one period whose steps interleave with each other
\* and with the creation of activities.
RefreshIds == 1..MaxRefreshes

NextRefreshRace ==
    \/ UserCreate("beginner")
    \/ /\ nextId.team <= 1
       /\ TeamCreate(1, {1})
    \/ \E u \in UserIds : ActivityCreate(u, "running", 30, 0 - 1, 0)
    \/ \E p \in RankingPeriods : RefreshStart(p)
    \/ \E r \in RefreshIds : RefreshUpsertUser(r)
    \/ \E r \in RefreshIds : RefreshTeamPass(r)
    \/ \E r \in RefreshIds : RefreshUpsertTeam(r)
    \/ \E r \in RefreshIds : RefreshFinish(r)

SpecRefreshRace == Init /\ [][NextRefreshRace]_vars

\* Periods of the request: one user in a team, activities dated before and
\* inside the monthly window, and refresh requests without a period, with a
\* period outside the choices, and with listed periods.
PeriodDates == {0 - (MonthlyDays + 1), 0 - 1}
RequestBodies ==
    {{}, {<<"period", "yearly">>}, {<<"period", "all_time">>},
     {<<"period", "monthly">>}}

NextPeriods ==
    \/ /\ nextId.user <= 1
       /\ UserCreate("beginner")
    \/ /\ nextId.team <= 1
       /\ TeamCreate(1, {1})
    \/ \E dt \in PeriodDates, d \in TotalsDurations :
           ActivityCreate(1, "running", d, dt, 0)
    \/ \E data \in RequestBodies : post_update_rankings(data)

SpecPeriods == Init /\ [][NextPeriods]_vars

\* The four windows side by side: one user in a team, activities dated just
\* before the start of each window of day 0 and at day 0, with positive and
\* with negative points, and refreshes of every period.
MonotoneDates ==
    {0 - (MonthlyDays + 1), 0 - (WeeklyDays + 1), 0 - (DailyDays + 1), 0}
MonotoneDurations == {30, 0 - 20}

NextMonotone ==
    \/ /\ nextId.user <= 1
       /\ UserCreate("beginner")
    \/ /\ nextId.team <= 1
       /\ TeamCreate(1, {1})
    \/ \E dt \in MonotoneDates, d \in MonotoneDurations :
           ActivityCreate(1, "running", d, dt, 0)
    \/ \E p \in Periods : update_rankings(p)

SpecMonotone == Init /\ [][NextMonotone]_vars

\* A profile update racing with a save: one user whose fitness_level is
\* updated while activities are being saved step by step.
NextProfile ==
    \/ /\ nextId.user <= 1
       /\ UserCreate("beginner")
    \/ \E level \in FitnessLevels : UserUpdate(1, level)
    \/ \E d \in TotalsDurations : SaveStore(1, "running", d, 0, 0)
    \/ \E id \in ActivityIds : SaveReadSum(id)
    \/ \E id \in ActivityIds : SaveWriteTotal(id)

SpecProfile == Init /\ [][NextProfile]_vars

\* The whole API, one request at a time, on small inputs: one user, one team,
\* one activity, two periods, and the leaderboard resource's own endpoints.
ApiPeriods == {"daily", "all_time"}
EntryIds == 1..MaxEntries

NextApi ==
    \/ /\ nextId.user <= 1
       /\ UserCreate("beginner")
    \/ UserDestroy(1)
    \/ /\ nextId.team <= 1
       /\ TeamCreate(1, {})
    \/ TeamDestroy(1)
    \/ add_member(1, 1)
    \/ remove_member(1, 1)
    \/ /\ nextId.activity <= 1
       /\ ActivityCreate(1, "running", 30, 0 - 1, 0)
    \/ ActivityDestroy(1)
    \/ \E p \in ApiPeriods : update_rankings(p)
    \/ \E p \in ApiPeriods : LeaderboardCreate(p, 1, 0)
    \/ \E id \in EntryIds, q \in ApiPeriods, p \in ApiPeriods :
           LeaderboardUpdate(id, q, p, 1, 0)
    \/ \E id \in EntryIds, q \in ApiPeriods : LeaderboardDestroy(id, q)

Spec == Init /\ [][NextApi]_vars

\* ------------------------------------------------------------------ claims

\* C1 (on the durations the contract names, d >= 0): an activity saved with
\* points_earned unset stores floor(floor(d/10) * multiplier(t)), for every
\* listed activity type t.  Checked under SpecScore.
C1_PointsAreFloorOfProduct ==
    \A i \in DOMAIN activities :
        (activities[i].duration >= 0 /\ activities[i].activity_type \in ActivityTypes)
            => activities[i].points_earned =
                   (base_points(activities[i].duration)
                        * multiplier10(activities[i].activity_type)) \div 10

\* C2: in every state reached by creating, editing and deleting activities,
\* each user's total_points is the sum of points_earned over the activities
\* that belong to the user.  Checked under SpecTotals.
C2_TotalIsSumOfActivities ==
    \A u \in DOMAIN users :
        users[u].total_points = SumPoints(activities, ActivitiesOf(activities, u))

\* The points the scoring rule gives the stored activities ids, added up.
RECURSIVE SumComputed(_)
SumComputed(ids) ==
    IF ids = {} THEN 0
    ELSE LET i == CHOOSE x \in ids : TRUE
         IN  points_for(activities[i].duration, activities[i].activity_type)
                 + SumComputed(ids \ {i})

\* C3: while activities are only created, one after another with points_earned
\* unset, each user's total_points is the sum of the points computed for the
\* user's activities, the newest included.  Checked under SpecCreate.
C3_TotalAfterCreations ==
    \A u \in DOMAIN users :
        users[u].total_points = SumComputed(ActivitiesOf(activities, u))

\* C3's case: two activities created for one user, both worth points.
C3_Witness ==
    \E u \in DOMAIN users :
        /\ Cardinality(ActivitiesOf(activities, u)) = 2
        /\ \A i \in ActivitiesOf(activities, u) : activities[i].points_earned > 0
        /\ users[u].total_points > 0

\* The rows of one partition of the leaderboard: the entries of period that
\* reference a user (kind "user") or a team (kind "team").
Partition(kind, period) ==
    {e \in DOMAIN leaderboard :
        leaderboard[e].period = period /\ leaderboard[e][kind] # NULL}

\* Within a partition, more points means a strictly smaller rank, and when
\* the points are pairwise distinct the ranks count down from 1 in point order.
RankedByPoints(kind, period) ==
    LET part == Partition(kind, period)
        distinct == \A a, b \in part :
                        a # b => leaderboard[a].points # leaderboard[b].points
    IN  /\ \A a, b \in part :
               leaderboard[a].points > leaderboard[b].points
                   => leaderboard[a].rank < leaderboard[b].rank
        /\ distinct =>
               \A a \in part :
                   leaderboard[a].rank =
                       1 + Cardinality({b \in part :
                               leaderboard[b].points > leaderboard[a].points})

\* C4: when a refresh of a period completes, in the user partition and in the
\* team partition of that period an entity with strictly more points has a
\* strictly smaller rank, and pairwise distinct points give the ranks 1..N in
\* descending point order.  Checked under SpecRanking.
C4_MorePointsSmallerRank ==
    [][\A p \in RankingPeriods :
          update_rankings(p) =>
              (RankedByPoints("user", p) /\ RankedByPoints("team", p))']_vars

\* C4's case: the user enumerated second and the team enumerated second hold
\* rank 1, each with more points than the first.
C4_Witness ==
    \E p \in RankingPeriods :
        /\ \E a, b \in Partition("user", p) :
               /\ leaderboard[a].user < leaderboard[b].user
               /\ leaderboard[a].points < leaderboard[b].points
               /\ leaderboard[b].rank = 1
               /\ leaderboard[a].rank = 2
        /\ \E a, b \in Partition("team", p) :
               /\ leaderboard[a].team < leaderboard[b].team
               /\ leaderboard[a].points < leaderboard[b].points
               /\ leaderboard[b].rank = 1
               /\ leaderboard[a].rank = 2

\* Every existing user and team has exactly one entry of period, holding the
\* entity's windowed sum of points_earned at the current instant.
EntriesHoldWindowedSums(period) ==
    /\ \A u \in DOMAIN users :
           /\ Cardinality({e \in Partition("user", period) :
                  leaderboard[e].user = u}) = 1
           /\ \A e \in Partition("user", period) :
                  leaderboard[e].user = u =>
                      leaderboard[e].points =
                          SumPoints(activities, {i \in DOMAIN activities :
                              /\ activities[i].user = u
                              /\ InWindow(period, now, activities[i].date)})
    /\ \A t \in DOMAIN teams :
           /\ Cardinality({e \in Partition("team", period) :
                  leaderboard[e].team = t}) = 1
           /\ \A e \in Partition("team", period) :
                  leaderboard[e].team = t =>
                      leaderboard[e].points =
                          SumPoints(activities, {i \in DOMAIN activities :
                              /\ activities[i].user \in teams[t].members
                              /\ InWindow(period, now, activities[i].date)})

\* C5: when a refresh of a period completes, every existing user and every
\* existing team has exactly one entry of that period, and its points are the
\* entity's windowed sum (0 without activities in the window), whether the
\* entry was created or already there.  Checked under SpecRanking.
C5_OneEntryWithWindowedSum ==
    [][\A p \in RankingPeriods :
          update_rankings(p) => EntriesHoldWindowedSums(p)']_vars

\* C5's case: entries of a user and of a team hold a windowed sum that is
\* positive and smaller than the sum over all the activities, beside an entry
\* with 0 points.
C5_Witness ==
    \E p \in RankingPeriods :
        /\ EntriesHoldWindowedSums(p)
        /\ \E e \in Partition("user", p) :
               /\ leaderboard[e].points > 0
               /\ leaderboard[e].points
                      < SumPoints(activities,
                                  ActivitiesOf(activities, leaderboard[e].user))
        /\ \E e \in Partition("team", p) : leaderboard[e].points > 0
        /\ \E e \in Partition("user", p) : leaderboard[e].points = 0

\* The window [start, now) of a period: from the start of the period's window
\* (none for all_time) up to, not including, the instant of the refresh.
InStartToNow(period, end_date, date) ==
    /\ date < end_date
    /\ period = "daily" => date >= end_date - DailyDays
    /\ period = "weekly" => date >= end_date - WeeklyDays
    /\ period = "monthly" => date >= end_date - MonthlyDays

\* C6: a refresh of a period at instant now counts for a user exactly the
\* activities dated in [start, now): from now - 1, 7 or 30 days (everything
\* for all_time), the start included, now and later excluded.  Checked under
\* SpecWindow.
C6_CountsStartToNow ==
    [][\A p \in Periods :
          update_rankings(p) =>
              (\A e \in Partition("user", p) :
                   leaderboard[e].points =
                       SumPoints(activities, {i \in DOMAIN activities :
                           /\ activities[i].user = leaderboard[e].user
                           /\ InStartToNow(p, now, activities[i].date)}))']_vars

\* The windowed points of the users in members, added up user by user.
RECURSIVE MemberPoints(_, _)
MemberPoints(members, period) ==
    IF members = {} THEN 0
    ELSE LET u == CHOOSE x \in members : TRUE
         IN  SumPoints(activities, {i \in DOMAIN activities :
                 /\ activities[i].user = u
                 /\ InWindow(period, now, activities[i].date)})
                 + MemberPoints(members \ {u}, period)

\* C7: when a refresh of a period completes, each team's entry holds the sum
\* over the team's current members of the member's in-window points_earned:
\* every such activity once, nothing of users who are not members, and a
\* user's points in each of the user's teams.  Checked under SpecRanking.
C7_TeamPointsAreMemberSums ==
    [][\A p \in RankingPeriods :
          update_rankings(p) =>
              (\A e \in Partition("team", p) :
                   leaderboard[e].points
                       = MemberPoints(teams[leaderboard[e].team].members, p))']_vars

\* C7's case: a user with in-window points belongs to two teams, both entries
\* hold the points, and the creator of the teams has points but is no member.
C7_Witness ==
    \E p \in RankingPeriods, u \in DOMAIN users :
        /\ \A t \in TeamIds : t \in DOMAIN teams /\ u \in teams[t].members
        /\ \A t \in TeamIds : \E e \in Partition("team", p) :
               /\ leaderboard[e].team = t
               /\ leaderboard[e].points > 0
               /\ leaderboard[e].points = MemberPoints(teams[t].members, p)
        /\ \E c \in DOMAIN users :
               /\ \A t \in TeamIds : teams[t].created_by = c /\ c \notin teams[t].members
               /\ MemberPoints({c}, p) > 0

\* The ranks of a partition are 1..N, each held by one entry.
RanksArePermutation(kind, period, n) ==
    LET part == Partition(kind, period)
    IN  /\ Cardinality(part) = n
        /\ {leaderboard[e].rank : e \in part} = 1..n

\* C8: when a refresh of a period completes over N users and M teams, the
\* ranks of the user entries of that period are exactly 1..N and those of the
\* team entries 1..M, no rank shared, also among equal points.  Checked under
\* SpecRanking.
C8_RanksArePermutation ==
    [][\A p \in RankingPeriods :
          update_rankings(p) =>
              /\ RanksArePermutation("user", p, Cardinality(DOMAIN users))'
              /\ RanksArePermutation("team", p, Cardinality(DOMAIN teams))']_vars

\* C8's case: two users tied on positive points and two teams tied, holding
\* ranks 1 and 2.
C8_Witness ==
    \E p \in RankingPeriods :
        /\ \E a, b \in Partition("user", p) :
               /\ a # b
               /\ leaderboard[a].points = leaderboard[b].points
               /\ leaderboard[a].points > 0
               /\ {leaderboard[a].rank, leaderboard[b].rank} = {1, 2}
        /\ \E a, b \in Partition("team", p) :
               /\ a # b
               /\ leaderboard[a].points = leaderboard[b].points
               /\ {leaderboard[a].rank, leaderboard[b].rank} = {1, 2}

\* C9: in every state reached by refreshes interleaved with user, team,
\* membership, activity and leaderboard requests, no two entries share a user
\* and a period, and no two share a team and a period.  Checked under Spec.
C9_OneEntryPerEntityAndPeriod ==
    \A a, b \in DOMAIN leaderboard :
        (a # b /\ leaderboard[a].period = leaderboard[b].period) =>
            /\ leaderboard[a].user = NULL \/ leaderboard[a].user # leaderboard[b].user
            /\ leaderboard[a].team = NULL \/ leaderboard[a].team # leaderboard[b].team

\* C9's case: refreshes of two periods have completed, and the user and the
\* team hold one entry in each; the user's entries show points.
C9_Witness ==
    \A p \in ApiPeriods :
        /\ Cardinality({e \in Partition("user", p) : leaderboard[e].user = 1}) = 1
        /\ Cardinality({e \in Partition("team", p) : leaderboard[e].team = 1}) = 1
        /\ \E e \in Partition("user", p) : leaderboard[e].points > 0

\* C10: every stored entry references exactly one of a user and a team.
\* Checked under Spec.
C10_ExactlyOneOfUserAndTeam ==
    \A e \in DOMAIN leaderboard :
        (leaderboard[e].user # NULL) # (leaderboard[e].team # NULL)

\* A call of update_rankings(period) on the tables db = [lb, next], with the
\* users, teams, activities and clock of the current state: the user pass,
\* then the team pass.
Refreshed(db, period) ==
    update_team_rankings(update_user_rankings(db, period), period)

\* C11: when a refresh of a period completes, a second refresh of that period
\* at the same instant, with users, teams, memberships and activities as they
\* are, leaves every entry as it is (same rank, same points) and creates no
\* entry.  Checked under SpecRanking.
C11_SecondRefreshChangesNothing ==
    [][\A p \in RankingPeriods :
          update_rankings(p) =>
              LET first == [lb |-> leaderboard', next |-> nextId'.leaderboard]
              IN  Refreshed(first, p) = first]_vars

\* C11's case: a refresh has just completed (the entries are what a refresh
\* writes) with two users tied on positive points and a team with points.
C11_Witness ==
    \E p \in RankingPeriods :
        /\ LET db == [lb |-> leaderboard, next |-> nextId.leaderboard]
           IN  Refreshed(db, p) = db
        /\ \E a, b \in Partition("user", p) :
               /\ a # b
               /\ leaderboard[a].points = leaderboard[b].points
               /\ leaderboard[a].points > 0
        /\ \E e \in Partition("team", p) : leaderboard[e].points > 0

\* C12: an edit of a stored activity's duration, activity_type, date or owner
\* that does not clear points_earned leaves the activity's points_earned as it
\* was, whatever the stored value, 0 included.  Checked under SpecTotals.
C12_EditKeepsPoints ==
    [][\A id \in ActivityIds, u \in UserIds, t \in TotalsTypes,
          d \in TotalsDurations :
          (/\ id \in DOMAIN activities
           /\ u \in DOMAIN users
           /\ ActivityUpdate(id, u, t, d, 0, FALSE))
              => activities'[id].points_earned = activities[id].points_earned]_vars

\* C13: an activity created with a non-zero points_earned is stored with
\* exactly that value, whatever its duration and type, and the owner's
\* total_points becomes the sum over the owner's stored activities, the new
\* one counted with the supplied value.  Checked under SpecTotals.
C13_SuppliedPointsAreStored ==
    [][\A u \in UserIds, t \in TotalsTypes, d \in TotalsDurations :
          (u \in DOMAIN users /\ ActivityCreate(u, t, d, 0, 7))
              => /\ activities'[nextId.activity].points_earned = 7
                 /\ users'[u].total_points
                        = 7 + SumPoints(activities, ActivitiesOf(activities, u))]_vars

\* C13's case: a stored activity holds supplied points that differ from what
\* the formula gives, beside an activity of the same owner with computed
\* points, and the owner's total is the sum of both.
C13_Witness ==
    \E i, j \in DOMAIN activities :
        /\ i # j
        /\ activities[i].user = activities[j].user
        /\ activities[i].points_earned = 7
        /\ points_for(activities[i].duration, activities[i].activity_type) # 7
        /\ activities[j].points_earned
               = points_for(activities[j].duration, activities[j].activity_type)
        /\ activities[j].points_earned > 0
        /\ users[activities[i].user].total_points
               = 7 + activities[j].points_earned

\* C14: an activity of a type outside the multiplier table is stored (the
\* save does not fail) with points_earned = floor(duration / 10), and its
\* owner's total_points is the sum over the owner's activities.  Checked
\* under SpecScore.
C14_UnknownTypeHasMultiplierOne ==
    \A i \in DOMAIN activities :
        activities[i].activity_type \notin ActivityTypes
            => /\ activities[i].points_earned = activities[i].duration \div 10
               /\ users[activities[i].user].total_points
                      = SumPoints(activities,
                                  ActivitiesOf(activities, activities[i].user))

\* C14's case: a stored activity of a type outside the table, long enough to
\* earn points, counted in its owner's total.
C14_Witness ==
    \E i \in DOMAIN activities :
        /\ activities[i].activity_type \notin ActivityTypes
        /\ activities[i].duration >= 10
        /\ activities[i].points_earned > 0
        /\ users[activities[i].user].total_points = activities[i].points_earned

\* Every started save has finished, and there are two of them.
BothSaved ==
    /\ Cardinality(DOMAIN saving) = 2
    /\ \A id \in DOMAIN saving : saving[id].pc = "done"

\* C15: two creations for the same user whose steps interleave can finish
\* with a total_points that differs from the sum of the user's points_earned;
\* whenever they do, the total is the sum one creation read before the other
\* activity was stored (it counts that creation's own activity only).
\* Checked under SpecRace.
C15_StaleSumOverwrites ==
    BothSaved =>
        /\ \E id \in DOMAIN saving : users[1].total_points = saving[id].total
        /\ users[1].total_points # UserTotal(activities, 1) =>
               \E id \in DOMAIN saving :
                   /\ users[1].total_points = saving[id].total
                   /\ saving[id].total = activities[id].points_earned

\* C15's case: both creations have finished and total_points is not the sum
\* of the user's points_earned.
C15_Witness ==
    /\ BothSaved
    /\ users[1].total_points # UserTotal(activities, 1)

\* C16: a step that creates a leaderboard entry, or changes the rank or the
\* points of a stored entry, is a ranking refresh.  Checked under Spec.
C16_OnlyRefreshWritesEntries ==
    [][(\/ DOMAIN leaderboard' \ DOMAIN leaderboard # {}
        \/ \E e \in DOMAIN leaderboard \cap DOMAIN leaderboard' :
               \/ leaderboard'[e].rank # leaderboard[e].rank
               \/ leaderboard'[e].points # leaderboard[e].points)
          => \E p \in ApiPeriods : update_rankings(p)]_vars

\* C17: the deletion of a user, the deletion of a team and a refresh remove
\* no leaderboard entry.  Checked under Spec.
C17_EntriesOutliveEntities ==
    [][(\/ UserDestroy(1)
        \/ TeamDestroy(1)
        \/ \E p \in ApiPeriods : update_rankings(p))
          => DOMAIN leaderboard \subseteq DOMAIN leaderboard']_vars

\* C18: add_member and remove_member on a team id that matches no team, or
\* with a user_id that matches no user, answer 404 and leave the teams and
\* their members as they are.  Checked under SpecRanking.
C18_MissingMemberOrTeamNotFound ==
    [][\A t \in TeamIds, u \in UserIds :
          (/\ t \notin DOMAIN teams \/ u \notin DOMAIN users
           /\ add_member(t, u) \/ remove_member(t, u))
              => /\ member_status(t, u) = HTTP_404_NOT_FOUND
                 /\ teams' = teams]_vars

\* C18's case: a team with a member exists while one user id and one team id
\* match nothing (the user and the team they named were deleted), so that
\* membership requests naming them are answered in this state.
C18_Witness ==
    /\ \E t \in DOMAIN teams : teams[t].members # {}
    /\ \E u \in UserIds : u \notin DOMAIN users /\ u < nextId.user
    /\ \E t \in TeamIds : t \notin DOMAIN teams /\ t < nextId.team

\* C19: every team's stored total_points is the sum of points_earned over the
\* activities of its current members.  Checked under SpecRanking.
C19_TeamTotalMirrorsMembers ==
    \A t \in DOMAIN teams :
        teams[t].total_points
            = SumPoints(activities, {i \in DOMAIN activities :
                            activities[i].user \in teams[t].members})

\* Of two entries of a partition with equal points, the one whose entity is
\* enumerated earlier has the smaller rank, and no entry with other points is
\* ranked between them.
TiesInEnumerationOrder(kind, period) ==
    \A a, b \in Partition(kind, period) :
        (/\ leaderboard[a].points = leaderboard[b].points
         /\ leaderboard[a][kind] < leaderboard[b][kind])
            => /\ leaderboard[a].rank < leaderboard[b].rank
               /\ \A c \in Partition(kind, period) :
                      (/\ leaderboard[a].rank < leaderboard[c].rank
                       /\ leaderboard[c].rank < leaderboard[b].rank)
                          => leaderboard[c].points = leaderboard[a].points

\* C20: when a refresh of a period completes, entities with equal points hold
\* consecutive ranks in the order in which they were enumerated, in the user
\* partition and in the team partition of that period: of two tied entities
\* the one enumerated earlier has the smaller rank.  Checked under SpecRanking.
C20_TiesKeepEnumerationOrder ==
    [][\A p \in RankingPeriods :
          update_rankings(p) =>
              (TiesInEnumerationOrder("user", p)
                   /\ TiesInEnumerationOrder("team", p))']_vars

\* C20's case: two users tied on positive points hold ranks 1 and 2, the one
\* enumerated first holding rank 1, and two teams are tied as well.
C20_Witness ==
    \E p \in RankingPeriods :
        /\ \E a, b \in Partition("user", p) :
               /\ leaderboard[a].user < leaderboard[b].user
               /\ leaderboard[a].points = leaderboard[b].points
               /\ leaderboard[a].points > 0
               /\ leaderboard[a].rank = 1
               /\ leaderboard[b].rank = 2
        /\ \E a, b \in Partition("team", p) :
               /\ leaderboard[a].team < leaderboard[b].team
               /\ leaderboard[a].points = leaderboard[b].points
               /\ leaderboard[a].rank = 1
               /\ leaderboard[b].rank = 2

\* The orders in which n upserts can be executed: the permutations of 1..n.
Orders(n) ==
    {o \in [1..n -> 1..n] : \A i, j \in 1..n : i # j => o[i] # o[j]}

\* The stored rows of a leaderboard table, without their primary keys.
Rows(lb) == {lb[e] : e \in DOMAIN lb}

\* The upserts of one pass of a refresh of period, executed in every order,
\* leave the rows the loop leaves when it executes them in rank order.
SameRowsInEveryOrder(kind, sorted, period) ==
    LET db == [lb |-> leaderboard, next |-> nextId.leaderboard]
        loop == Upserts(db, kind, sorted, period, 1)
    IN  \A o \in Orders(Len(sorted)) :
            LET other == UpsertsInOrder(db, kind, sorted, period, o, 1)
            IN  /\ Rows(other.lb) = Rows(loop.lb)
                /\ other.next = loop.next

\* C21: in every state, the upserts of the user pass and of the team pass of
\* a refresh give the same rows (rank and points per entity and period),
\* and create as many, in whatever order they are executed.  Checked under
\* SpecRanking.
C21_UpsertsCommute ==
    \A p \in RankingPeriods :
        /\ SameRowsInEveryOrder("user",
               SortDesc(user_points(activities, users, p, now)), p)
        /\ SameRowsInEveryOrder("team",
               SortDesc(team_points(activities, teams, p, now)), p)

\* C21's case: two users with different points, the one enumerated second
\* with more, one holding an entry of the period (its upsert updates) and
\* one holding none (its upsert creates), and two teams.
C21_Witness ==
    \E p \in RankingPeriods :
        /\ Cardinality(DOMAIN users) = 2
        /\ Cardinality(DOMAIN teams) = 2
        /\ \E u, v \in DOMAIN users :
               /\ u < v
               /\ UserWindowPoints(activities, u, p, now)
                      < UserWindowPoints(activities, v, p, now)
               /\ Matching(leaderboard, "user", u, p) # {}
               /\ Matching(leaderboard, "user", v, p) = {}

\* Two refreshes of period have run and finished, each having computed its
\* points over all the users there are.
BothRefreshed(period) ==
    /\ Cardinality(DOMAIN refreshing) = 2
    /\ \A r \in DOMAIN refreshing :
           /\ refreshing[r].pc = "done"
           /\ refreshing[r].period = period
           /\ {refreshing[r].user_points[k].ent :
                  k \in 1..Len(refreshing[r].user_points)} = DOMAIN users

\* C22: after two refreshes of a period whose steps may interleave, with
\* activities created meanwhile, every user has exactly one entry of the
\* period, the ranks of the user entries are a permutation of 1..N, and among
\* them more points means a strictly smaller rank.  Checked under
\* SpecRefreshRace.
C22_ConcurrentRefreshesKeepRanking ==
    \A p \in RankingPeriods :
        BothRefreshed(p) =>
            /\ \A u \in DOMAIN users :
                   Cardinality({e \in Partition("user", p) :
                                    leaderboard[e].user = u}) = 1
            /\ RanksArePermutation("user", p, Cardinality(DOMAIN users))
            /\ \A a, b \in Partition("user", p) :
                   leaderboard[a].points > leaderboard[b].points
                       => leaderboard[a].rank < leaderboard[b].rank

\* C23: a save of an activity, at its creation or at an edit, leaves the
\* total_points of every user other than the owner given in the save as it
\* was; an edit that moves an activity to another user leaves the former
\* owner's total_points as it was.  Checked under SpecMove.
C23_OnlyOwnerTotalChanges ==
    [][\A u \in UserIds, d \in MoveDurations :
          (\/ ActivityCreate(u, "running", d, 0, 0)
           \/ \E id \in ActivityIds : ActivityUpdate(id, u, "running", d, 0, FALSE))
              => \A v \in DOMAIN users \ {u} :
                     users'[v].total_points = users[v].total_points]_vars

\* C23's case: the only activity ever created has been moved to another
\* user: its owner's total counts it, and the former owner, now without
\* activities, still has the total of before the move.
C23_Witness ==
    /\ nextId.activity = 2
    /\ \E u, v \in DOMAIN users :
           /\ u # v
           /\ ActivitiesOf(activities, u) = {1}
           /\ users[u].total_points = activities[1].points_earned
           /\ users[v].total_points > 0

\* C24: a refresh of a period leaves every user, every team (members and
\* total_points included) and every activity as it was, and every entry of
\* another period stays stored with the same fields.  Checked under Spec.
C24_RefreshTouchesOnlyItsPeriod ==
    [][\A p \in ApiPeriods :
          update_rankings(p) =>
              /\ users' = users
              /\ teams' = teams
              /\ activities' = activities
              /\ \A e \in DOMAIN leaderboard :
                     leaderboard[e].period # p =>
                         /\ e \in DOMAIN leaderboard'
                         /\ leaderboard'[e] = leaderboard[e]]_vars

\* C24's case: the user's all_time entry, written before the user had an
\* activity, still shows 0 points beside the daily entry that a later refresh
\* wrote with the activity's points.
C24_Witness ==
    \E a \in Partition("user", "daily"), b \in Partition("user", "all_time") :
        /\ leaderboard[a].user = leaderboard[b].user
        /\ leaderboard[a].points > 0
        /\ leaderboard[a].points = UserTotal(activities, leaderboard[a].user)
        /\ leaderboard[b].points = 0
        /\ b < a

\* Every existing user and team has exactly one entry of period, holding the
\* sum of points_earned over all the entity's activities, whatever their date.
EntriesHoldUnboundedSums(period) ==
    /\ \A u \in DOMAIN users :
           \E e \in Partition("user", period) :
               /\ leaderboard[e].user = u
               /\ leaderboard[e].points = UserTotal(activities, u)
               /\ \A f \in Partition("user", period) :
                      leaderboard[f].user = u => f = e
    /\ \A t \in DOMAIN teams :
           \E e \in Partition("team", period) :
               /\ leaderboard[e].team = t
               /\ leaderboard[e].points =
                      SumPoints(activities, {i \in DOMAIN activities :
                          activities[i].user \in teams[t].members})
               /\ \A f \in Partition("team", period) :
                      leaderboard[f].team = t => f = e

\* C25: a refresh request without a period writes the all_time entries; a
\* refresh request with the period "yearly", which is none of the choices, is
\* carried out: it writes entries of period "yearly" with the sums over all
\* activities and leaves every all_time entry as it was.  Checked under
\* SpecPeriods.
C25_DefaultAndUnknownPeriod ==
    [][/\ post_update_rankings({}) => EntriesHoldUnboundedSums("all_time")'
       /\ post_update_rankings({<<"period", "yearly">>}) =>
              /\ EntriesHoldUnboundedSums("yearly")'
              /\ \A e \in DOMAIN leaderboard :
                     leaderboard[e].period = "all_time" =>
                         /\ e \in DOMAIN leaderboard'
                         /\ leaderboard'[e] = leaderboard[e]]_vars

\* C25's case: the user and the team hold "yearly" entries whose points count
\* an activity dated before the monthly window, beside all_time entries
\* written earlier that show fewer points.
C25_Witness ==
    /\ \E i \in DOMAIN activities : activities[i].date < 0 - MonthlyDays
    /\ \E a \in Partition("user", "yearly"), b \in Partition("user", "all_time") :
           /\ leaderboard[a].points = UserTotal(activities, leaderboard[a].user)
           /\ leaderboard[b].points < leaderboard[a].points
    /\ \E a \in Partition("team", "yearly"), b \in Partition("team", "all_time") :
           leaderboard[b].points < leaderboard[a].points

\* The tables after the four periods have been refreshed one after another
\* in the current state: at the same instant, over the same data.
AllPeriodsRefreshed ==
    Refreshed(Refreshed(Refreshed(Refreshed(
        [lb |-> leaderboard, next |-> nextId.leaderboard],
        "daily"), "weekly"), "monthly"), "all_time")

\* The points of the entry of an entity and a period in the table lb.
EntryPoints(lb, kind, ent, period) ==
    lb[CHOOSE e \in Matching(lb, kind, ent, period) : TRUE].points

\* The entry points of an entity grow with the window.
PointsGrowWithWindow(lb, kind, ent) ==
    /\ EntryPoints(lb, kind, ent, "daily") <= EntryPoints(lb, kind, ent, "weekly")
    /\ EntryPoints(lb, kind, ent, "weekly") <= EntryPoints(lb, kind, ent, "monthly")
    /\ EntryPoints(lb, kind, ent, "monthly") <= EntryPoints(lb, kind, ent, "all_time")

\* C26: when no activity has negative points_earned, refreshing the four
\* periods at one instant over the same data gives every user and every team
\* entry points with daily <= weekly <= monthly <= all_time.  Checked under
\* SpecMonotone.
C26_PointsGrowWithWindow ==
    (\A i \in DOMAIN activities : activities[i].points_earned >= 0) =>
        LET lb == AllPeriodsRefreshed.lb
        IN  /\ \A u \in DOMAIN users : PointsGrowWithWindow(lb, "user", u)
            /\ \A t \in DOMAIN teams : PointsGrowWithWindow(lb, "team", t)

\* C26's case: the stored entries of two periods are those of a refresh at
\* this instant, no activity has negative points, and the windows differ: for
\* the user and for the team the points grow strictly from daily to weekly
\* and from monthly to all_time.
C26_Witness ==
    LET lb == AllPeriodsRefreshed.lb
    IN  /\ Cardinality(DOMAIN leaderboard) = 4
        /\ Rows(leaderboard) \subseteq Rows(lb)
        /\ \A i \in DOMAIN activities : activities[i].points_earned >= 0
        /\ \E u \in DOMAIN users, t \in DOMAIN teams :
               /\ EntryPoints(lb, "user", u, "daily")
                      < EntryPoints(lb, "user", u, "weekly")
               /\ EntryPoints(lb, "user", u, "monthly")
                      < EntryPoints(lb, "user", u, "all_time")
               /\ EntryPoints(lb, "team", t, "daily")
                      < EntryPoints(lb, "team", t, "weekly")
               /\ EntryPoints(lb, "team", t, "monthly")
                      < EntryPoints(lb, "team", t, "all_time")

\* C27: the step of an activity save that writes the owner leaves the owner's
\* profile field fitness_level as it is in the database, also when a profile
\* update was stored after the save obtained the user.  Checked under
\* SpecProfile.
C27_SaveKeepsProfileFields ==
    [][\A id \in ActivityIds :
          SaveWriteTotal(id) =>
              users'[activities[id].user].fitness_level
                  = users[activities[id].user].fitness_level]_vars

====
